---------------------------- MODULE Spec2Model ----------------------------
(***************************************************************************)
(* A model of the stacking-tower game of src/src/main.rs: the GameData     *)
(* aggregate, its tick handler (update), its frame handler (draw, for the  *)
(* camera offset it writes), its key handler (key_down_event) and its      *)
(* resize handler.                                                         *)
(*                                                                         *)
(* Representation.                                                         *)
(*  - grid is a sequence of rows; the Rust index r is grid[r + 1].  A row  *)
(*    is a function from the columns 0 .. GAME_WIDTH-1 to GridBlock.       *)
(*  - Times are exact rationals counted in tenths of a second: dt and      *)
(*    move_timer are whole tenths, move_interval is a fraction             *)
(*    [num, den] of tenths (MOVE_INTERVAL = 0.2 s = 2/1,                   *)
(*    SPEED_INCREASE = 0.92 = 23/25).  f32 rounding is not modelled.       *)
(*  - Lengths are whole pixels; the window sizes are chosen so that        *)
(*    window_width / GAME_WIDTH and 0.3 * window_height are whole.         *)
(*  - GameOver(Instant) is state = "GameOver" with over_elapsed, the       *)
(*    whole seconds start_time.elapsed().as_secs() would report.          *)
(*  - running = FALSE after std::process::exit(0).                         *)
(*  - loaded_games and starts are history variables: the games_played      *)
(*    value GameStats::load returned and the number of start_game calls.   *)
(***************************************************************************)
EXTENDS Integers, Sequences, FiniteSets, TLC

\* ---------------------------------------------------------------- constants
GAME_WIDTH == 15
PLATFORM_BLOCKS == 5
MOVE_INTERVAL == [num |-> 2, den |-> 1]
SPEED_INCREASE == [num |-> 23, den |-> 25]
FALL_SPEED == 50
GAME_OVER_DELAY == 3
CAMERA_MIN_LEVEL == 4

\* ------------------------------------------------------------------- bounds
\* successful landings allowed in one game
MaxLevel == 2
\* successful landings allowed in one game of SpecTall
MaxTallLevel == 4
\* successful landings allowed in one game of SpecTower
MaxTowerLevel == 5
\* games started in one run of the program
MaxGames == 2
\* largest frame delta, in tenths of a second
MaxDt == 2

Cols == 0 .. (GAME_WIDTH - 1)
Deltas == 1 .. MaxDt
\* window sizes (width, height) the window system may report
WindowSizes == {<<750, 600>>, <<600, 800>>}
\* the window of a session that is never resized
FixedWindow == {<<750, 600>>}
\* contents of game_stats.json at startup
LoadedStats == {[high_score |-> 1, games_played |-> 7]}
\* the same for SpecTall: a record no game of MaxTallLevel landings beats
TallStats == {[high_score |-> 9, games_played |-> 0]}
\* SpecTall freezes the platform this far from the target, or off it
TallOffsets == {0, 1}
\* keys that no state of the game reacts to stand for every other key
Keys == {"Return", "S", "Q", "Space", "Escape", "Other"}

VARIABLES state, running, grid, platform_position, platform_width,
          move_right, move_timer, move_interval, level, camera_offset_y,
          window_width, window_height, current_row, moving_platform_pos,
          stats, over_elapsed, loaded_games, starts

vars == <<state, running, grid, platform_position, platform_width,
          move_right, move_timer, move_interval, level, camera_offset_y,
          window_width, window_height, current_row, moving_platform_pos,
          stats, over_elapsed, loaded_games, starts>>

\* ------------------------------------------------------------ pure helpers
\* `x as usize` followed by `< GAME_WIDTH as usize`: a negative x wraps to a
\* huge value, which is never below GAME_WIDTH.
UsizeBelowWidth(x) == x >= 0 /\ x < GAME_WIDTH

\* vec![GridBlock { active: false, landed: false, level, falling: false,
\*                  fall_offset: 0.0 }; GAME_WIDTH]
BlankRow(lvl) ==
    [c \in Cols |-> [active |-> FALSE, landed |-> FALSE, level |-> lvl,
                     falling |-> FALSE, fall_offset |-> 0]]

\* mutant: the centred left edge rounded up
CenteredPosition_Ceil(width) == (GAME_WIDTH - width + 1) \div 2

\* the centred left edge (GAME_WIDTH - width) / 2, i32 division
CenteredPosition(width) == (GAME_WIDTH - width) \div 2

\* add_base_row: the row it pushes
BaseRow(pos, width) ==
    [c \in Cols |->
        IF c >= pos /\ c < pos + width /\ UsizeBelowWidth(c)
        THEN [BlankRow(0)[c] EXCEPT !.active = TRUE, !.landed = TRUE, !.level = 0]
        ELSE BlankRow(0)[c]]

\* add_new_row: the row it pushes
NewRow(lvl, mpos, width) ==
    [c \in Cols |->
        IF c >= mpos /\ c < mpos + width /\ UsizeBelowWidth(c)
        THEN [BlankRow(lvl)[c] EXCEPT !.active = TRUE]
        ELSE BlankRow(lvl)[c]]

\* mutant: the timer has to pass the interval, reaching it is not enough
TimerReached_Strict(timer, interval) == timer * interval.den > interval.num

\* self.move_timer >= self.move_interval, timer in whole tenths
TimerReached(timer, interval) == timer * interval.den >= interval.num

\* mutant: the interval is not shortened
SpeedUp_None(interval) == interval

\* self.move_interval *= SPEED_INCREASE
SpeedUp(interval) ==
    [num |-> interval.num * SPEED_INCREASE.num,
     den |-> interval.den * SPEED_INCREASE.den]


\* ------------------------------------------------------------ GameData::new
InitWith(loaded, sizes) ==
    /\ state = "Menu"
    /\ running = TRUE
    /\ grid = <<>>
    /\ platform_position = CenteredPosition(PLATFORM_BLOCKS)
    /\ platform_width = PLATFORM_BLOCKS
    /\ move_right = TRUE
    /\ move_timer = 0
    /\ move_interval = MOVE_INTERVAL
    /\ level = 0
    /\ camera_offset_y = 0
    /\ \E size \in sizes :
          window_width = size[1] /\ window_height = size[2]
    /\ current_row = 0
    /\ moving_platform_pos = CenteredPosition(PLATFORM_BLOCKS)
    /\ stats \in loaded
    /\ over_elapsed = 0
    /\ loaded_games = stats.games_played
    /\ starts = 0

Init == InitWith(LoadedStats, FixedWindow)

\* ------------------------------------------------- reset_game / start_game
\* mutant: the increment of games_played left out
GamesPlayedAfterStart_Same(played) == played

\* self.stats.games_played += 1
GamesPlayedAfterStart(played) == played + 1

\* the interval reset_game stores
ResetInterval == MOVE_INTERVAL

\* mutant: start_game leaves the camera offset of the previous game
ResetCamera_Stale == camera_offset_y

\* the camera offset start_game stores
ResetCamera == 0

\* mutant: a new game starts with an empty step timer
TimerAfterStart_Zero(timer) == 0

\* start_game and reset_game assign neither move_timer nor move_right: the
\* fields keep the values the previous game left in them
TimerAfterStart(timer) == timer

DirectionAfterStart(right) == right

\* key Return in Menu: start_game, which ends with reset_game
StartGame ==
    /\ state = "Menu"
    /\ starts < MaxGames
    /\ state' = "Playing"
    /\ level' = 0
    /\ camera_offset_y' = ResetCamera
    /\ stats' = [stats EXCEPT !.games_played = GamesPlayedAfterStart(@)]
    /\ platform_width' = PLATFORM_BLOCKS
    /\ platform_position' = CenteredPosition(PLATFORM_BLOCKS)
    /\ moving_platform_pos' = CenteredPosition(PLATFORM_BLOCKS)
    /\ current_row' = 0
    /\ move_interval' = ResetInterval
    /\ grid' = <<BaseRow(platform_position', platform_width'),
                 NewRow(level', moving_platform_pos', platform_width')>>
    /\ starts' = starts + 1
    /\ move_timer' = TimerAfterStart(move_timer)
    /\ move_right' = DirectionAfterStart(move_right)
    /\ UNCHANGED <<running, window_width, window_height, over_elapsed,
                   loaded_games>>

\* --------------------------------------------------------- update_movement
\* "Update falling blocks": the last row after fall_offset += 500.0 * dt
FallRow(row, dt) ==
    [c \in Cols |->
        IF row[c].falling
        THEN [row[c] EXCEPT !.fall_offset = @ + FALL_SPEED * dt]
        ELSE row[c]]

\* mutant: the right-edge test off by one
CanStepRight_OffByOne(pos, width) == pos + width <= GAME_WIDTH

\* self.moving_platform_pos + self.platform_width < GAME_WIDTH
CanStepRight(pos, width) == pos + width < GAME_WIDTH

\* self.moving_platform_pos > 0
CanStepLeft(pos) == pos > 0

\* mutant: the cell the platform leaves behind is not cleared
StepRightRow_Trail(row, pos, width) ==
    LET new_pos == (pos + 1) + width - 1
    IN  IF UsizeBelowWidth(new_pos)
        THEN [row EXCEPT ![new_pos].active = TRUE]
        ELSE row

\* the last row after one step to the right from pos
StepRightRow(row, pos, width) ==
    LET off == [row EXCEPT ![pos].active = FALSE]
        new_pos == (pos + 1) + width - 1
    IN  IF UsizeBelowWidth(new_pos)
        THEN [off EXCEPT ![new_pos].active = TRUE]
        ELSE off

\* the last row after one step to the left from pos
StepLeftRow(row, pos, width) ==
    LET old_pos == pos + width - 1
        off == IF UsizeBelowWidth(old_pos)
               THEN [row EXCEPT ![old_pos].active = FALSE]
               ELSE row
    IN  [off EXCEPT ![pos - 1].active = TRUE]

\* the value update_movement(dt) returns: true inside the timer branch
\* (after a step or after a flip alike), false otherwise
UpdateMovementReturns(timer, dt, interval) ==
    TimerReached(timer + dt, interval)

\* grid with its last row replaced
WithLastRow(g, row) == [g EXCEPT ![Len(g)] = row]

\* update(), state Playing: update_movement(dt)
TickPlaying(dt) ==
    /\ state = "Playing"
    /\ LET fallen == IF Len(grid) > 0
                     THEN WithLastRow(grid, FallRow(grid[Len(grid)], dt))
                     ELSE grid
           timer == move_timer + dt
       IN  IF TimerReached(timer, move_interval)
           THEN /\ move_timer' = 0
                /\ IF move_right
                   THEN IF CanStepRight(moving_platform_pos, platform_width)
                        THEN IF Len(fallen) > 0
                             THEN /\ grid' = WithLastRow(fallen,
                                        StepRightRow(fallen[Len(fallen)],
                                            moving_platform_pos, platform_width))
                                  /\ moving_platform_pos' = moving_platform_pos + 1
                                  /\ UNCHANGED move_right
                             ELSE /\ grid' = fallen
                                  /\ UNCHANGED <<moving_platform_pos, move_right>>
                        ELSE /\ move_right' = FALSE
                             /\ grid' = fallen
                             /\ UNCHANGED moving_platform_pos
                   ELSE IF CanStepLeft(moving_platform_pos)
                        THEN IF Len(fallen) > 0
                             THEN /\ grid' = WithLastRow(fallen,
                                        StepLeftRow(fallen[Len(fallen)],
                                            moving_platform_pos, platform_width))
                                  /\ moving_platform_pos' = moving_platform_pos - 1
                                  /\ UNCHANGED move_right
                             ELSE /\ grid' = fallen
                                  /\ UNCHANGED <<moving_platform_pos, move_right>>
                        ELSE /\ move_right' = TRUE
                             /\ grid' = fallen
                             /\ UNCHANGED moving_platform_pos
           ELSE /\ move_timer' = timer
                /\ grid' = fallen
                /\ UNCHANGED <<moving_platform_pos, move_right>>
    /\ UNCHANGED <<state, running, platform_position, platform_width,
                   move_interval, level, camera_offset_y, window_width,
                   window_height, current_row, stats, over_elapsed,
                   loaded_games, starts>>

\* update(), state GameOver(start_time)
TickGameOver ==
    /\ state = "GameOver"
    /\ IF over_elapsed >= GAME_OVER_DELAY
       THEN state' = "Menu" /\ over_elapsed' = 0
       ELSE UNCHANGED <<state, over_elapsed>>
    /\ UNCHANGED <<running, grid, platform_position, platform_width,
                   move_right, move_timer, move_interval, level,
                   camera_offset_y, window_width, window_height, current_row,
                   moving_platform_pos, stats, loaded_games, starts>>

\* update(), states Menu and Settings: nothing
TickIdle ==
    /\ state \in {"Menu", "Settings"}
    /\ UNCHANGED vars

\* EventHandler::update, called once a frame with the frame's delta
Update(dt) ==
    /\ running
    /\ \/ TickPlaying(dt)
       \/ TickGameOver
       \/ TickIdle

\* the wall clock read by start_time.elapsed(): one more whole second has
\* passed since the game ended (values past GAME_OVER_DELAY read the same)
TimePasses ==
    /\ running
    /\ state = "GameOver"
    /\ over_elapsed < GAME_OVER_DELAY
    /\ over_elapsed' = over_elapsed + 1
    /\ UNCHANGED <<state, running, grid, platform_position, platform_width,
                   move_right, move_timer, move_interval, level,
                   camera_offset_y, window_width, window_height, current_row,
                   moving_platform_pos, stats, loaded_games, starts>>

\* ----------------------------------------------------------- check_landing
\* mutant: the right bound of the target span taken as outside it
OutsideSpan_EndInclusive(i, platform_start, platform_end) ==
    \/ (platform_start < 0 \/ i < platform_start)
    \/ (platform_end >= 0 /\ i >= platform_end)

\* mutant: the left bound of the target span taken as outside it
OutsideSpan_Inclusive(i, platform_start, platform_end) ==
    \/ (platform_start < 0 \/ i <= platform_start)
    \/ (platform_end >= 0 /\ i > platform_end)

\* i < platform_start as usize || i > platform_end as usize
\* (a negative bound cast to usize is larger than every column)
OutsideSpan(i, platform_start, platform_end) ==
    \/ (platform_start < 0 \/ i < platform_start)
    \/ (platform_end >= 0 /\ i > platform_end)

\* mutant: the overhang is not marked
MarkFalling_None(row, platform_start, platform_end) == row

\* "First, mark blocks that should fall"
MarkFalling(row, platform_start, platform_end) ==
    [i \in Cols |->
        IF /\ row[i].active
           /\ ~row[i].landed
           /\ OutsideSpan(i, platform_start, platform_end)
        THEN [row[i] EXCEPT !.falling = TRUE, !.fall_offset = 0]
        ELSE row[i]]

\* mutant: the counting loop stops one column short of platform_end
CountedCols_ExclusiveEnd(row, platform_start, platform_end) ==
    {i \in platform_start .. (platform_end - 1) :
        i >= 0 /\ i < GAME_WIDTH /\ row[i].active}

\* the columns the second loop of check_landing counts
CountedCols(row, platform_start, platform_end) ==
    {i \in platform_start .. platform_end :
        i >= 0 /\ i < GAME_WIDTH /\ row[i].active}

\* mutant: every active cell of the row marked landed, the overhang too
MarkLanded_AllActive(row, platform_start, platform_end) ==
    [i \in Cols |->
        IF row[i].active THEN [row[i] EXCEPT !.landed = TRUE] ELSE row[i]]

\* "Then count remaining active blocks and mark them as landed"
MarkLanded(row, platform_start, platform_end) ==
    [i \in Cols |->
        IF i \in CountedCols(row, platform_start, platform_end)
        THEN [row[i] EXCEPT !.landed = TRUE]
        ELSE row[i]]

\* active_count after the second loop
ActiveCount(row, platform_start, platform_end) ==
    Cardinality(CountedCols(row, platform_start, platform_end))

\* the last row as check_landing leaves it
LandingRow(row, platform_start, platform_end) ==
    MarkLanded(MarkFalling(row, platform_start, platform_end),
               platform_start, platform_end)

\* mutant: a count of zero accepted as a landing
LandingSucceeds_Always(active_count) == active_count >= 0

\* if active_count > 0
LandingSucceeds(active_count) == active_count > 0

\* mutant: platform_width takes the count on a miss as well
WidthAfterLanding_Count(active_count, width) == active_count

\* platform_width after check_landing: written only on success
WidthAfterLanding(active_count, width) ==
    IF LandingSucceeds(active_count) THEN active_count ELSE width

\* mutant: the high score overwritten by every game
HighScoreAfter_Always(lvl, high_score) == lvl

\* the high score after a game that ended at lvl
HighScoreAfter(lvl, high_score) ==
    IF lvl > high_score THEN lvl ELSE high_score

\* mutant: the row counter is not advanced
RowAfterLanding_Same(row) == row

\* self.current_row += 1
RowAfterLanding(row) == row + 1

\* ---------------------------------------------------------- key_down_event
\* key Space in Playing: check_landing, then the branch on its result
FreezeUpTo(max_level) ==
    /\ state = "Playing"
    /\ Len(grid) > 0
    /\ LET platform_start == platform_position
           platform_end == platform_position + platform_width - 1
           last == grid[Len(grid)]
           frozen == LandingRow(last, platform_start, platform_end)
           active_count == ActiveCount(MarkFalling(last, platform_start,
                                                   platform_end),
                                       platform_start, platform_end)
       IN  IF LandingSucceeds(active_count)
           THEN /\ level < max_level
                /\ platform_width' = WidthAfterLanding(active_count, platform_width)
                /\ platform_position' = CenteredPosition(platform_width')
                /\ moving_platform_pos' = platform_position'
                /\ current_row' = RowAfterLanding(current_row)
                /\ grid' = Append(WithLastRow(grid, frozen),
                                  NewRow(level, moving_platform_pos',
                                         platform_width'))
                /\ level' = level + 1
                /\ move_interval' = SpeedUp(move_interval)
                /\ UNCHANGED <<state, stats, over_elapsed>>
           ELSE /\ platform_width' = WidthAfterLanding(active_count, platform_width)
                /\ grid' = WithLastRow(grid, frozen)
                /\ stats' = [stats EXCEPT
                                !.high_score = HighScoreAfter(level, @)]
                /\ state' = "GameOver"
                /\ over_elapsed' = 0
                /\ UNCHANGED <<platform_position, moving_platform_pos,
                               current_row, level, move_interval>>
    /\ UNCHANGED <<running, move_right, move_timer, camera_offset_y,
                   window_width, window_height, loaded_games, starts>>

Freeze == FreezeUpTo(MaxLevel)

\* key S in Menu
OpenSettings ==
    /\ state = "Menu"
    /\ state' = "Settings"
    /\ UNCHANGED <<running, grid, platform_position, platform_width,
                   move_right, move_timer, move_interval, level,
                   camera_offset_y, window_width, window_height, current_row,
                   moving_platform_pos, stats, over_elapsed, loaded_games,
                   starts>>

\* mutant: Q ends the process from any state
Quit_Anywhere ==
    /\ running' = FALSE
    /\ UNCHANGED <<state, grid, platform_position, platform_width,
                   move_right, move_timer, move_interval, level,
                   camera_offset_y, window_width, window_height, current_row,
                   moving_platform_pos, stats, over_elapsed, loaded_games,
                   starts>>

\* key Q in Menu: std::process::exit(0)
Quit ==
    /\ state = "Menu"
    /\ running' = FALSE
    /\ UNCHANGED <<state, grid, platform_position, platform_width,
                   move_right, move_timer, move_interval, level,
                   camera_offset_y, window_width, window_height, current_row,
                   moving_platform_pos, stats, over_elapsed, loaded_games,
                   starts>>

\* key Escape in Settings
CloseSettings ==
    /\ state = "Settings"
    /\ state' = "Menu"
    /\ UNCHANGED <<running, grid, platform_position, platform_width,
                   move_right, move_timer, move_interval, level,
                   camera_offset_y, window_width, window_height, current_row,
                   moving_platform_pos, stats, over_elapsed, loaded_games,
                   starts>>

\* the (state, key) pairs key_down_event reacts to
Handled(st, key) ==
    \/ st = "Menu" /\ key \in {"Return", "S", "Q"}
    \/ st = "Playing" /\ key = "Space"
    \/ st = "Settings" /\ key = "Escape"

\* EventHandler::key_down_event
KeyDown(key, freeze) ==
    /\ running
    /\ \/ key = "Return" /\ StartGame
       \/ key = "S" /\ OpenSettings
       \/ key = "Q" /\ Quit
       \/ key = "Space" /\ freeze
       \/ key = "Escape" /\ CloseSettings
       \/ ~Handled(state, key) /\ UNCHANGED vars

\* --------------------------------------------------------------------- draw
\* the camera offset draw() stores (lines 292-301); the rest of draw() only
\* reads the state
CameraAfterDraw(st, rows, lvl, width, height, camera) ==
    LET block_draw_size == width \div GAME_WIDTH
        moving_platform_y == height - rows * block_draw_size
    IN  IF /\ st \in {"Playing", "GameOver"}
           /\ rows > 1
           /\ lvl >= CAMERA_MIN_LEVEL
           /\ 10 * moving_platform_y < 7 * height
        THEN moving_platform_y - (3 * height) \div 10
        ELSE camera

\* EventHandler::draw
Draw ==
    /\ running
    /\ camera_offset_y' = CameraAfterDraw(state, Len(grid), level,
                              window_width, window_height, camera_offset_y)
    /\ UNCHANGED <<state, running, grid, platform_position, platform_width,
                   move_right, move_timer, move_interval, level,
                   window_width, window_height, current_row,
                   moving_platform_pos, stats, over_elapsed, loaded_games,
                   starts>>

\* EventHandler::resize_event: handle_window_resize
Resize(size) ==
    /\ running
    /\ window_width' = size[1]
    /\ window_height' = size[2]
    /\ UNCHANGED <<state, running, grid, platform_position, platform_width,
                   move_right, move_timer, move_interval, level,
                   camera_offset_y, current_row, moving_platform_pos, stats,
                   over_elapsed, loaded_games, starts>>

\* ------------------------------------------------------------ specification
KeyDownEvent(key) == KeyDown(key, Freeze)

\* A session in a window that is never resized: keys, frames and the clock.
Next ==
    \/ \E key \in Keys : KeyDownEvent(key)
    \/ \E dt \in Deltas : Update(dt)
    \/ TimePasses
    \/ Draw

Spec == Init /\ [][Next]_vars

\* The frame driver keeps calling update() and the wall clock keeps running.
FairSpec ==
    /\ Spec
    /\ WF_vars(\E dt \in Deltas : Update(dt))
    /\ WF_vars(TimePasses)

\* Tall towers: the same program with resize events, a high score on file
\* that no game beats, towers of up to MaxTallLevel landings, and the player
\* freezing the platform only within TallOffsets of the target span or where
\* it misses the span entirely.
NearOrMissed ==
    \/ moving_platform_pos - platform_position \in TallOffsets
    \/ moving_platform_pos + platform_width <= platform_position
    \/ moving_platform_pos >= platform_position + platform_width

FreezeTall == NearOrMissed /\ FreezeUpTo(MaxTallLevel)

KeyDownEventTall(key) == KeyDown(key, FreezeTall)

InitTall == InitWith(TallStats, WindowSizes)

NextTall ==
    \/ \E key \in Keys : KeyDownEventTall(key)
    \/ \E dt \in Deltas : Update(dt)
    \/ TimePasses
    \/ Draw
    \/ \E size \in WindowSizes : Resize(size)

SpecTall == InitTall /\ [][NextTall]_vars

\* Towers past the level at which the camera first moves, in a window that is
\* never resized: SpecTall's player, one landing more, no resize events.
FreezeTower == NearOrMissed /\ FreezeUpTo(MaxTowerLevel)

KeyDownEventTower(key) == KeyDown(key, FreezeTower)

InitTower == InitWith(TallStats, FixedWindow)

NextTower ==
    \/ \E key \in Keys : KeyDownEventTower(key)
    \/ \E dt \in Deltas : Update(dt)
    \/ TimePasses
    \/ Draw

SpecTower == InitTower /\ [][NextTower]_vars

\* ------------------------------------------------------------ type invariant
GridBlock ==
    [active : BOOLEAN, landed : BOOLEAN, level : Nat,
     falling : BOOLEAN, fall_offset : Nat]

TypeOK ==
    /\ state \in {"Menu", "Playing", "GameOver", "Settings"}
    /\ running \in BOOLEAN
    /\ \A r \in 1 .. Len(grid) : \A c \in Cols : grid[r][c] \in GridBlock
    /\ platform_position \in Cols
    /\ platform_width \in 0 .. PLATFORM_BLOCKS
    /\ move_right \in BOOLEAN
    /\ move_timer \in Nat
    /\ level \in Nat
    /\ camera_offset_y \in Int
    /\ current_row \in Nat
    /\ moving_platform_pos \in Cols
    /\ over_elapsed \in 0 .. GAME_OVER_DELAY
    /\ starts \in 0 .. MaxGames

\* ------------------------------------------------ vocabulary of the claims
\* the Rust row index r
Row(r) == grid[r + 1]

\* the live (last) row
LastRow == grid[Len(grid)]

\* the columns lo .. hi
Span(lo, width) == lo .. (lo + width - 1)

ActiveCols(row) == {c \in Cols : row[c].active}
LandedCols(row) == {c \in Cols : row[c].landed}
FallingCols(row) == {c \in Cols : row[c].falling}

\* the steps of the session
MenuToPlaying == state = "Menu" /\ state' = "Playing"
PlayingToGameOver == state = "Playing" /\ state' = "GameOver"
\* a successful freeze: the only step that appends a row to a non-empty grid
LandedStep == state = "Playing" /\ Len(grid') = Len(grid) + 1
\* a call of update_movement in which the timer fired
TimerFiredStep ==
    /\ state = "Playing" /\ state' = "Playing" /\ Len(grid') = Len(grid)
    /\ (moving_platform_pos' # moving_platform_pos \/ move_right' # move_right)

\* ---------------------------------------------------------------------- C1
\* C1: in every Playing state the moving platform's columns
\* moving_platform_pos .. moving_platform_pos + platform_width - 1 lie in
\* 0 .. GAME_WIDTH - 1, and a call of update_movement whose next step would
\* leave that range flips move_right and leaves the position alone.
PlatformInRange ==
    state = "Playing" =>
        /\ moving_platform_pos >= 0
        /\ moving_platform_pos + platform_width - 1 < GAME_WIDTH

C1_OscillationBounds ==
    [][ /\ PlatformInRange
        /\ PlatformInRange'
        /\ TimerFiredStep =>
            /\ (move_right /\ moving_platform_pos + platform_width >= GAME_WIDTH)
                  => (~move_right' /\ moving_platform_pos' = moving_platform_pos)
            /\ (~move_right /\ moving_platform_pos <= 0)
                  => (move_right' /\ moving_platform_pos' = moving_platform_pos)
      ]_vars

\* the platform has reached the right edge and the direction has been flipped
C1_Witness ==
    /\ state = "Playing"
    /\ ~move_right
    /\ moving_platform_pos + platform_width = GAME_WIDTH
    /\ move_timer = 0

\* ---------------------------------------------------------------------- C2
\* C2: a successful check_landing sets platform_width to the number of active
\* cells of the frozen row inside the target span it had before the call, and
\* platform_position and moving_platform_pos to (GAME_WIDTH - platform_width)
\* / 2, floored; target 5..9 with the platform at 7..11 gives width 3 at 6.
C2_LandingConservation ==
    [][ LandedStep =>
          /\ platform_width' =
                Cardinality(ActiveCols(LastRow) \cap
                            Span(platform_position, platform_width))
          /\ 2 * platform_position' <= GAME_WIDTH - platform_width'
          /\ 2 * platform_position' + 1 >= GAME_WIDTH - platform_width'
          /\ moving_platform_pos' = platform_position'
          /\ (platform_position = 5 /\ platform_width = 5
                /\ moving_platform_pos = 7)
               => (platform_width' = 3 /\ platform_position' = 6)
      ]_vars

\* the landing of the example has happened: the platform frozen at 7..11 on
\* the target 5..9
C2_Witness ==
    /\ state = "Playing"
    /\ level = 1
    /\ ActiveCols(Row(1)) = 7 .. 11
    /\ LandedCols(Row(1)) = 7 .. 9
    /\ platform_width = 3
    /\ platform_position = 6

\* ---------------------------------------------------------------------- C3
\* C3: a freeze in Playing with the moving platform's span disjoint from the
\* target span ends the game: the state becomes GameOver, no row is appended
\* and level keeps its value.
ZeroOverlap ==
    Span(moving_platform_pos, platform_width) \cap
    Span(platform_position, platform_width) = {}

C3_TotalMiss ==
    [][ (state = "Playing" /\ ZeroOverlap /\ Freeze) =>
          /\ state' = "GameOver"
          /\ Len(grid') = Len(grid)
          /\ level' = level
      ]_vars

\* the game ended with the platform of width 3 at 12..14 off the target 6..8
C3_Witness ==
    /\ state = "GameOver"
    /\ platform_width = 3
    /\ platform_position = 6
    /\ moving_platform_pos = 12
    /\ ActiveCols(LastRow) = 12 .. 14
    /\ Len(grid) = level + 2

\* ---------------------------------------------------------------------- C4
\* C4: a freeze with the moving platform exactly on the target span leaves
\* platform_width and platform_position as they were and marks no cell of
\* the frozen row falling.
C4_PerfectAlignment ==
    [][ (state = "Playing" /\ moving_platform_pos = platform_position
            /\ Freeze) =>
          /\ platform_width' = platform_width
          /\ platform_position' = platform_position
          /\ FallingCols(grid'[Len(grid)]) = {}
      ]_vars

\* a platform already cut to width 3 has been frozen exactly on its target
C4_Witness ==
    /\ state = "Playing"
    /\ level = 2
    /\ platform_width = 3
    /\ FallingCols(Row(1)) # {}
    /\ LandedCols(Row(2)) = Span(platform_position, platform_width)
    /\ ActiveCols(Row(2)) = LandedCols(Row(2))
    /\ FallingCols(Row(2)) = {}

\* ---------------------------------------------------------------------- C5
\* C5 as stated: in every GameOver state platform_width = 0.
C5_Original == state = "GameOver" => platform_width = 0

\* C5, amended: the game ends when a drop lands no cell; platform_width is
\* not written by a missed drop, so in every GameOver state it is still the
\* width (1 .. PLATFORM_BLOCKS) of the platform that missed, none of whose
\* cells is landed.
C5_GameOverWidth ==
    state = "GameOver" =>
        /\ platform_width \in 1 .. PLATFORM_BLOCKS
        /\ platform_width = Cardinality(ActiveCols(LastRow))
        /\ LandedCols(LastRow) = {}

\* a platform cut to width 4 by one landing has missed its target
C5_Witness ==
    /\ state = "GameOver"
    /\ level = 1
    /\ platform_width = 4
    /\ ActiveCols(LastRow) \cap Span(platform_position, platform_width) = {}

\* ---------------------------------------------------------------------- C6
\* the row directly below the live row
RowBelow == grid[Len(grid) - 1]

\* C6 as stated: in every Playing state the target span is the column range
\* of the landed cells of the row directly below the live row.
C6_Original ==
    state = "Playing" =>
        LandedCols(RowBelow) = Span(platform_position, platform_width)

\* C6, amended: in every Playing state the target span has as many columns
\* as the row below has landed cells (which are contiguous) and is centred,
\* platform_position = (GAME_WIDTH - platform_width) / 2; it is the column
\* range of those cells before the first landing, and afterwards only if
\* the cells that landed are themselves centred.
C6_TargetSpan ==
    state = "Playing" =>
        /\ Cardinality(LandedCols(RowBelow)) = platform_width
        /\ \E lo \in Cols : LandedCols(RowBelow) = Span(lo, platform_width)
        /\ 2 * platform_position <= GAME_WIDTH - platform_width
        /\ 2 * platform_position + 1 >= GAME_WIDTH - platform_width
        /\ Len(grid) = 2 =>
              LandedCols(RowBelow) = Span(platform_position, platform_width)

\* the platform landed on 6..9 and the next one is judged against 5..8
C6_Witness ==
    /\ state = "Playing"
    /\ Len(grid) = 3
    /\ LandedCols(RowBelow) = 6 .. 9
    /\ Span(platform_position, platform_width) = 5 .. 8

\* ---------------------------------------------------------------------- C7
\* C7: stats.high_score changes only on the step from Playing to GameOver,
\* where it becomes level if level is greater than it and keeps its value
\* otherwise.
C7_HighScoreRule ==
    [][ /\ stats'.high_score # stats.high_score => PlayingToGameOver
        /\ PlayingToGameOver =>
              /\ level > stats.high_score => stats'.high_score = level
              /\ level <= stats.high_score
                    => stats'.high_score = stats.high_score
      ]_vars

\* the first game raised the loaded high score to 2 and the second game,
\* ended at level 0, kept it
C7_Witness ==
    /\ state = "GameOver"
    /\ starts = 2
    /\ level = 0
    /\ stats.high_score = 2

\* ---------------------------------------------------------------------- C8
\* C8: stats.games_played grows by one on every step from Menu to Playing
\* and is changed by no other step, so it always is the loaded value plus
\* the number of such steps.
C8_GamesPlayed ==
    /\ [](stats.games_played = loaded_games + starts)
    /\ [][ /\ MenuToPlaying =>
                /\ stats'.games_played = stats.games_played + 1
                /\ starts' = starts + 1
           /\ ~MenuToPlaying =>
                /\ stats'.games_played = stats.games_played
                /\ starts' = starts
         ]_vars

\* two games have been started and the second has ended
C8_Witness ==
    /\ state = "GameOver"
    /\ starts = 2
    /\ stats.games_played = loaded_games + 2

\* ---------------------------------------------------------------------- C9
RECURSIVE Pow(_, _)
Pow(b, n) == IF n = 0 THEN 1 ELSE b * Pow(b, n - 1)

\* a < b for two fractions with positive denominators
RatLess(a, b) == a.num * b.den < b.num * a.den

\* the successful landings of the game: the rows appended since reset_game
Landings == Len(grid) - 2

\* C9: in a game, after N successful landings move_interval is
\* MOVE_INTERVAL * SPEED_INCREASE^N: a successful landing multiplies it by
\* SPEED_INCREASE, which makes it strictly smaller, and a tick or a failed
\* landing leaves it alone.
C9_SpeedMonotone ==
    /\ [](state \in {"Playing", "GameOver"} =>
            /\ move_interval.num =
                  MOVE_INTERVAL.num * Pow(SPEED_INCREASE.num, Landings)
            /\ move_interval.den =
                  MOVE_INTERVAL.den * Pow(SPEED_INCREASE.den, Landings))
    /\ [][ /\ LandedStep => RatLess(move_interval', move_interval)
           /\ (state = "Playing" /\ ~LandedStep)
                 => move_interval' = move_interval
         ]_vars

\* two landings have shortened the interval to 0.2 s * 0.92^2
C9_Witness ==
    /\ state = "Playing"
    /\ Landings = 2
    /\ move_interval = [num |-> 1058, den |-> 625]

\* --------------------------------------------------------------------- C10
\* the left edge of PLATFORM_BLOCKS centred cells
StartColumn == (GAME_WIDTH - PLATFORM_BLOCKS) \div 2

\* C10: right after every step from Menu to Playing the grid has two rows,
\* row 0 with exactly the PLATFORM_BLOCKS centred cells active and landed,
\* row 1 with exactly the same cells active and none landed, no cell falling;
\* level and current_row are 0, platform_width is PLATFORM_BLOCKS,
\* platform_position and moving_platform_pos are (GAME_WIDTH -
\* PLATFORM_BLOCKS) / 2, move_interval is MOVE_INTERVAL and camera_offset_y
\* is 0.
C10_FreshGame ==
    [][ MenuToPlaying =>
          /\ Len(grid') = 2
          /\ ActiveCols(grid'[1]) = Span(StartColumn, PLATFORM_BLOCKS)
          /\ LandedCols(grid'[1]) = Span(StartColumn, PLATFORM_BLOCKS)
          /\ ActiveCols(grid'[2]) = Span(StartColumn, PLATFORM_BLOCKS)
          /\ LandedCols(grid'[2]) = {}
          /\ FallingCols(grid'[1]) = {}
          /\ FallingCols(grid'[2]) = {}
          /\ level' = 0
          /\ current_row' = 0
          /\ platform_width' = PLATFORM_BLOCKS
          /\ platform_position' = StartColumn
          /\ moving_platform_pos' = StartColumn
          /\ move_interval' = MOVE_INTERVAL
          /\ camera_offset_y' = 0
      ]_vars

\* a second game has been started and nothing has been landed in it yet
C10_Witness ==
    /\ state = "Playing"
    /\ starts = 2
    /\ Len(grid) = 2
    /\ level = 0
    /\ stats.games_played = loaded_games + 2
    /\ camera_offset_y = 0

\* --------------------------------------------------------------------- C11
\* what a game leaves behind: everything but the state tag, the clock of the
\* GameOver screen, the camera offset (written by draw) and the window size
GameFields ==
    <<running, grid, platform_position, platform_width, move_right,
      move_timer, move_interval, level, current_row, moving_platform_pos,
      stats, loaded_games, starts>>

\* C11: in GameOver no key changes anything; the state is left only by an
\* update() that finds at least GAME_OVER_DELAY seconds elapsed, which goes to
\* Menu, while an update() before that stays in GameOver; and with update()
\* called again and again and time advancing, every GameOver is followed by
\* Menu.
C11_GameOverDelay ==
    /\ [][ state = "GameOver" =>
            /\ (\E key \in Keys : KeyDownEvent(key)) => UNCHANGED vars
            /\ UNCHANGED GameFields
            /\ state' # "GameOver" =>
                  (state' = "Menu" /\ over_elapsed >= GAME_OVER_DELAY)
            /\ (over_elapsed < GAME_OVER_DELAY /\ TickGameOver)
                  => state' = "GameOver"
            /\ (over_elapsed >= GAME_OVER_DELAY /\ TickGameOver)
                  => state' = "Menu"
         ]_vars
    /\ (state = "GameOver") ~> (state = "Menu")

\* a game has ended, its delay has passed and update() has returned to Menu
C11_Witness ==
    /\ state = "Menu"
    /\ starts = 1
    /\ Len(grid) >= 2
    /\ LandedCols(LastRow) = {}
    /\ stats.games_played = loaded_games + 1

\* --------------------------------------------------------------------- C12
\* move_timer + dt has reached move_interval, written out
TimerFires(dt) == (move_timer + dt) * move_interval.den >= move_interval.num

\* the platform is against the edge it is heading for
AtHeadedEdge ==
    IF move_right
    THEN moving_platform_pos + platform_width = GAME_WIDTH
    ELSE moving_platform_pos = 0

\* C12 as stated: every update_movement call whose timer reaches the interval
\* resets the timer and moves the platform by exactly one column, also when it
\* reverses, and it returns true exactly when the platform moved one column.
C12_Original ==
    [][ \A dt \in Deltas :
          TickPlaying(dt) =>
            /\ TimerFires(dt) =>
                  /\ move_timer' = 0
                  /\ \/ moving_platform_pos' = moving_platform_pos + 1
                     \/ moving_platform_pos' = moving_platform_pos - 1
            /\ UpdateMovementReturns(move_timer, dt, move_interval)
                  <=> (moving_platform_pos' # moving_platform_pos)
      ]_vars

\* C12, amended: a call whose timer reaches the interval resets the timer and
\* either moves the platform one column in its direction or, against the edge
\* it is heading for, leaves it in place and reverses the direction; a call
\* whose timer does not reach the interval only adds dt to the timer; the call
\* returns true exactly when the timer reached the interval.
C12_StepOrFlip ==
    [][ \A dt \in Deltas :
          TickPlaying(dt) =>
            /\ TimerFires(dt) =>
                  /\ move_timer' = 0
                  /\ IF AtHeadedEdge
                     THEN /\ moving_platform_pos' = moving_platform_pos
                          /\ move_right' = ~move_right
                     ELSE /\ moving_platform_pos' =
                                IF move_right THEN moving_platform_pos + 1
                                              ELSE moving_platform_pos - 1
                          /\ move_right' = move_right
            /\ ~TimerFires(dt) =>
                  /\ move_timer' = move_timer + dt
                  /\ UNCHANGED <<moving_platform_pos, move_right>>
            /\ UpdateMovementReturns(move_timer, dt, move_interval)
                  <=> TimerFires(dt)
      ]_vars

\* the platform has just reversed against the left edge without moving
C12_Witness ==
    /\ state = "Playing"
    /\ move_right
    /\ moving_platform_pos = 0
    /\ move_timer = 0

\* --------------------------------------------------------------------- C13
\* columns of a row holding a cell that is active and not landed
LiveCols(row) == {c \in Cols : row[c].active /\ ~row[c].landed}

\* C13: during a game the last row is the only row holding a cell that is
\* active and not landed; every earlier row has none, also after a landing
\* that cut an overhang away.
C13_Original ==
    (state \in {"Playing", "GameOver"}) =>
        \A r \in 1..(Len(grid) - 1) : LiveCols(grid[r]) = {}

\* C13, amended: during a game the last row is the only row holding a cell
\* that is active, not landed and not falling.  In an earlier row the cells
\* that are active and not landed are exactly its cut-away cells, which stay
\* active and are marked falling; while Playing the last row holds the moving
\* platform and no falling cell.
C13_LiveRow ==
    (state \in {"Playing", "GameOver"}) =>
        /\ \A r \in 1..(Len(grid) - 1) :
              LiveCols(grid[r]) = FallingCols(grid[r])
        /\ state = "Playing" =>
              /\ LiveCols(LastRow) # {}
              /\ FallingCols(LastRow) = {}
        /\ state = "GameOver" => LiveCols(LastRow) = FallingCols(LastRow)

\* a landing has cut an overhang away and the next row is moving above it
C13_Witness ==
    /\ state = "Playing"
    /\ Len(grid) = 3
    /\ LiveCols(grid[2]) # {}
    /\ LandedCols(grid[2]) # {}
    /\ moving_platform_pos # platform_position

\* --------------------------------------------------------------------- C14
\* C14: once a cell is marked falling, every later update() in Playing
\* strictly increases its fall_offset.
C14_Original ==
    [][ \A dt \in Deltas :
          TickPlaying(dt) =>
            \A r \in 1..Len(grid) : \A c \in Cols :
                grid[r][c].falling =>
                    /\ grid'[r][c].falling
                    /\ grid'[r][c].fall_offset > grid[r][c].fall_offset
      ]_vars

\* --------------------------------------------------------------------- C15
\* the target span check_landing reads
TargetSpan == Span(platform_position, platform_width)

\* C15: no cell is landed and falling at once; check_landing marks falling
\* exactly the frozen row's active, not-landed cells outside the target span
\* and marks landed exactly its active cells inside it; a landed cell never
\* becomes falling afterwards.
C15_LandedFallingExclusive ==
    /\ [](\A r \in 1..Len(grid) : LandedCols(grid[r]) \cap FallingCols(grid[r]) = {})
    /\ [][ /\ (LandedStep \/ PlayingToGameOver) =>
                /\ FallingCols(grid'[Len(grid)]) = LiveCols(LastRow) \ TargetSpan
                /\ LandedCols(grid'[Len(grid)]) = ActiveCols(LastRow) \cap TargetSpan
           /\ ~MenuToPlaying =>
                \A r \in 1..Len(grid) :
                    LandedCols(grid[r]) \subseteq
                        (LandedCols(grid'[r]) \ FallingCols(grid'[r]))
         ]_vars

\* a frozen row with landed cells beside cut-away cells, two rows down
C15_Witness ==
    /\ state = "Playing"
    /\ Len(grid) = 4
    /\ LandedCols(grid[2]) # {}
    /\ FallingCols(grid[2]) # {}
    /\ FallingCols(grid[3]) # {}

\* --------------------------------------------------------------------- C16
\* the level tag every cell of a row carries (rows are built from one tagged
\* block, so column 0 stands for the row)
RowTag(r) == Row(r)[0].level

\* C16: the cells of row r carry r, the row's grid index at spawn; the tags of
\* consecutive rows differ by one, so the colour parity (tag % 2) alternates
\* between adjacent rows, the base row, row 1 and row 2 included.
C16_Original ==
    (state \in {"Playing", "GameOver"}) =>
        /\ \A r \in 0..(Len(grid) - 1) : \A c \in Cols : Row(r)[c].level = r
        /\ \A r \in 0..(Len(grid) - 2) :
              /\ RowTag(r + 1) = RowTag(r) + 1
              /\ RowTag(r + 1) % 2 # RowTag(r) % 2

\* --------------------------------------------------------------------- C17
\* C17: within one game in a window of fixed size camera_offset_y is 0 while
\* level < 4 and never decreases: it never takes a value lower than one it had
\* earlier in the same game.
C17_Original ==
    /\ []((state \in {"Playing", "GameOver"} /\ level < CAMERA_MIN_LEVEL)
            => camera_offset_y = 0)
    /\ [][ (state \in {"Playing", "GameOver"} /\ state' \in {"Playing", "GameOver"})
            => camera_offset_y' >= camera_offset_y ]_vars

\* --------------------------------------------------------------------- C18
\* a freeze that landed cells: the frozen row comes out with landed cells
SuccessfulFreeze == state = "Playing" /\ LandedCols(grid'[Len(grid)]) # {}

\* C18: during a game (Playing or GameOver) the grid has level + 2 rows and
\* current_row = level; a successful freeze raises the three by one together,
\* and no other event of a game changes the row count.
C18_RowsAndLevel ==
    /\ []((state \in {"Playing", "GameOver"}) =>
            (Len(grid) = level + 2 /\ current_row = level))
    /\ [][ /\ SuccessfulFreeze =>
                /\ Len(grid') = Len(grid) + 1
                /\ level' = level + 1
                /\ current_row' = current_row + 1
           /\ (/\ state \in {"Playing", "GameOver"}
               /\ state' \in {"Playing", "GameOver"}
               /\ ~SuccessfulFreeze) =>
                /\ Len(grid') = Len(grid)
                /\ level' = level
                /\ current_row' = current_row
         ]_vars

\* a game that ended after two landings
C18_Witness ==
    /\ state = "GameOver"
    /\ level = 2
    /\ current_row = 2
    /\ Len(grid) = 4

\* --------------------------------------------------------------------- C19
\* C19: in Playing the active cells of the last row are exactly the columns
\* moving_platform_pos .. moving_platform_pos + platform_width - 1 and none of
\* its cells is landed or falling; an update() changes cells of the last row
\* only.
C19_LiveRowSpan ==
    /\ [](state = "Playing" =>
            /\ ActiveCols(LastRow) = Span(moving_platform_pos, platform_width)
            /\ LandedCols(LastRow) = {}
            /\ FallingCols(LastRow) = {})
    /\ [][ (state = "Playing" /\ \E dt \in Deltas : TickPlaying(dt)) =>
            /\ Len(grid') = Len(grid)
            /\ \A r \in 1..(Len(grid) - 1) : grid'[r] = grid[r]
         ]_vars

\* a narrowed platform that has walked to the right edge above two frozen rows
C19_Witness ==
    /\ state = "Playing"
    /\ Len(grid) = 3
    /\ platform_width < PLATFORM_BLOCKS
    /\ moving_platform_pos + platform_width = GAME_WIDTH
    /\ ActiveCols(LastRow) = Span(moving_platform_pos, platform_width)

\* --------------------------------------------------------------------- C20
\* C20: within one game platform_width never increases and stays within
\* 1 .. PLATFORM_BLOCKS; it changes only on a successful check_landing (a new
\* game sets it back to PLATFORM_BLOCKS); and platform_position is
\* (GAME_WIDTH - platform_width) / 2 in every reachable state.
C20_WidthAndCentre ==
    /\ [](/\ platform_width \in 1 .. PLATFORM_BLOCKS
          /\ platform_position = (GAME_WIDTH - platform_width) \div 2)
    /\ [][ /\ (state \in {"Playing", "GameOver"} /\ ~MenuToPlaying)
                => platform_width' <= platform_width
           /\ platform_width' # platform_width
                => (SuccessfulFreeze \/ MenuToPlaying)
           /\ MenuToPlaying => platform_width' = PLATFORM_BLOCKS
         ]_vars

\* two landings have cut the platform down to a single cell
C20_Witness ==
    /\ state = "Playing"
    /\ level = 2
    /\ platform_width = 1
    /\ platform_position = 7
    /\ Cardinality(LandedCols(grid[2])) = 3

\* --------------------------------------------------------------------- C21
\* C21: the step from Menu to Playing leaves move_right and move_timer as they
\* were, and so does every step taken outside Playing, so a new game starts
\* with the direction and the part-filled step timer the previous game ended
\* with.
C21_LeftoverOscillation ==
    [][ /\ MenuToPlaying =>
              (move_right' = move_right /\ move_timer' = move_timer)
        /\ state # "Playing" =>
              (move_right' = move_right /\ move_timer' = move_timer)
      ]_vars

\* a second game, its platform on the start column of a fresh grid, heading
\* left with a part-filled timer: the first game started heading right with
\* the timer at 0
C21_Witness ==
    /\ state = "Playing"
    /\ starts = 2
    /\ level = 0
    /\ Len(grid) = 2
    /\ moving_platform_pos = StartColumn
    /\ ~move_right
    /\ move_timer = 1

=============================================================================
